---------------------------- MODULE Spec2Model ----------------------------
(***************************************************************************)
(* Model of src/app.py: the WhatsApp webhook relay.                        *)
(*                                                                         *)
(*   Spec         the POST pipeline with two requests in flight at once    *)
(*   SpecSeq      the POST pipeline, one request after another             *)
(*   SpecCatalog  get_all_retailer_ids / get_catalog_message_input over    *)
(*                bounded catalog-service responses                        *)
(*   SpecVerify   the GET verification handshake                           *)
(***************************************************************************)
EXTENDS Naturals, Sequences, FiniteSets

VARIABLES
    SENT_WELCOME,   \* app.py:20, the process-wide set of greeted users
    VERIFY_TOKEN,   \* app.py:15, the configured secret (None when unset)
    pc,             \* per request: the position inside handle_message
    body,           \* per request: the parsed webhook body
    local,          \* per request: the locals of process_whatsapp_message
    sends,          \* per request: the send_message calls made, in order
    aiCalls,        \* per request: the prompts handed to generate_response
    catalogCalls,   \* per request: number of catalog lookups made
    response,       \* per request: the HTTP status returned (0: none yet)
    welcomeCount,   \* history: welcome Text sends per user over the run
    started,        \* history: number of requests received so far
    catalog,        \* SpecCatalog: one application of the catalog functions
    verification    \* SpecVerify: one application of verify()

vars == <<SENT_WELCOME, VERIFY_TOKEN, pc, body, local, sends, aiCalls,
          catalogCalls, response, welcomeCount, started, catalog, verification>>

pipelineVars == <<SENT_WELCOME, pc, body, local, sends, aiCalls,
                  catalogCalls, response, welcomeCount, started>>

---------------------------------------------------------------------------
(* Bounds *)

MaxRequests == 2        \* requests received in one run
MaxProducts == 2        \* records in one catalog-service response

---------------------------------------------------------------------------
(* Python values *)

None == "<None>"                     \* Python None / an absent key

Truthy(s) == s # None /\ s # ""      \* truth value of an optional string

Users == {"u1", "u2"}
Procs == {"r1", "r2"}                \* request threads of the server
SeqProcs == {"r1"}                   \* a single request thread

---------------------------------------------------------------------------
(* str.lower() and str.strip() on message bodies, which are sequences of   *)
(* one-character strings.                                                  *)

UpperCase == <<"A","B","C","D","E","F","G","H","I","J","K","L","M",
               "N","O","P","Q","R","S","T","U","V","W","X","Y","Z">>
LowerCase == <<"a","b","c","d","e","f","g","h","i","j","k","l","m",
               "n","o","p","q","r","s","t","u","v","w","x","y","z">>

Whitespace == {" ", "\t", "\n"}

LowerChar(c) ==
    IF \E i \in 1..Len(UpperCase) : UpperCase[i] = c
    THEN LowerCase[CHOOSE i \in 1..Len(UpperCase) : UpperCase[i] = c]
    ELSE c

Lower(s) == [i \in 1..Len(s) |-> LowerChar(s[i])]

RECURSIVE LStrip(_)
LStrip(s) ==
    IF s # <<>> /\ Head(s) \in Whitespace THEN LStrip(Tail(s)) ELSE s

RECURSIVE RStrip(_)
RStrip(s) ==
    IF s # <<>> /\ s[Len(s)] \in Whitespace
    THEN RStrip(SubSeq(s, 1, Len(s) - 1))
    ELSE s

Strip(s) == RStrip(LStrip(s))

---------------------------------------------------------------------------
(* generate_response: the completion call either answers or fails; the     *)
(* except clause turns every failure into the fixed apology string.        *)

NoUserText == <<>>

FixedPrompt(name) == [fixed |-> name, user |-> NoUserText]
UserPrompt(text)  == [fixed |-> "", user |-> text]

WelcomePrompt == FixedPrompt("welcome")     \* app.py:149
CatalogPrompt == FixedPrompt("catalog")     \* app.py:142
InfoPrompt    == FixedPrompt("info")        \* app.py:215
NoPrompt      == FixedPrompt("<none>")

Completion(prompt) == [apology |-> FALSE, prompt |-> prompt]
APOLOGY == [apology |-> TRUE, prompt |-> NoPrompt]   \* app.py:199
NoText  == [apology |-> FALSE, prompt |-> NoPrompt]  \* a message without text

AIOutcomes == {"ok", "error"}

\* Variant: a failed completion call yields an empty answer, no apology.
generate_response_NoApology(message_body, outcome) ==
    IF outcome = "ok" THEN Completion(message_body) ELSE NoText

generate_response(message_body, outcome) ==
    IF outcome = "ok" THEN Completion(message_body) ELSE APOLOGY

---------------------------------------------------------------------------
(* Outbound message envelopes *)

CATALOG_ID == "catalog-1"         \* app.py:16
WelcomeImage == "360_F_446408796_sO3c3ZIuWMgvXNbfXM4Hyqt7pLtGzKQo.jpg"

Context(thread_id) == IF Truthy(thread_id) THEN thread_id ELSE None

get_text_message_input(recipient, text, thread_id) ==
    [type |-> "text", to |-> recipient, text |-> text, link |-> None,
     catalog_id |-> None, items |-> <<>>, context |-> Context(thread_id)]

image_payload(recipient, thread_id) ==
    [type |-> "image", to |-> recipient, text |-> NoText,
     link |-> WelcomeImage, catalog_id |-> None, items |-> <<>>,
     context |-> Context(thread_id)]

NoMessage ==
    [type |-> "<none>", to |-> None, text |-> NoText, link |-> None,
     catalog_id |-> None, items |-> <<>>, context |-> None]

---------------------------------------------------------------------------
(* The catalog service's answer to one lookup, and get_all_retailer_ids.   *)

Product(retailer_id) == [dict |-> TRUE, retailer_id |-> retailer_id]
NotADict == [dict |-> FALSE, retailer_id |-> None]

ProductRecords ==
    {Product("r1"), Product("r2"), Product(None), Product(""), NotADict}

RECURSIVE SeqsUpTo(_, _)
SeqsUpTo(S, n) ==
    IF n = 0 THEN {<<>>}
    ELSE LET shorter == SeqsUpTo(S, n - 1)
         IN  shorter \cup {Append(s, x) : s \in shorter, x \in S}

CatalogResponse(outcome, shape, products) ==
    [outcome |-> outcome, shape |-> shape, products |-> products]

\* network failure, non-2xx status, a body that is not JSON, and the JSON
\* shapes: a bare list, a dict with "data", and bodies carrying no list.
CatalogResponses ==
    {CatalogResponse(o, "<none>", <<>>) :
        o \in {"network_error", "http_error", "bad_json"}}
    \cup {CatalogResponse("ok", sh, <<>>) :
            sh \in {"dict_without_data", "data_null", "null"}}
    \cup {CatalogResponse("ok", sh, ps) :
            sh \in {"list", "data_list"},
            ps \in SeqsUpTo(ProductRecords, MaxProducts)}

\* The loop of app.py:51-54; product.get fails on a record that is no dict.
RECURSIVE CollectIds(_, _)
CollectIds(products, retailer_ids) ==
    IF products = <<>> THEN [raised |-> FALSE, ids |-> retailer_ids]
    ELSE LET product == Head(products) IN
         IF ~product.dict THEN [raised |-> TRUE, ids |-> retailer_ids]
         ELSE CollectIds(Tail(products),
                         IF Truthy(product.retailer_id)
                         THEN Append(retailer_ids, product.retailer_id)
                         ELSE retailer_ids)

\* The try block, app.py:45-60.
LookupProducts(resp) ==
    IF resp.outcome # "ok" THEN [raised |-> TRUE, ids |-> <<>>]
    ELSE IF resp.shape \in {"list", "data_list"} /\ resp.products # <<>>
         THEN CollectIds(resp.products, <<>>)
         ELSE [raised |-> FALSE, ids |-> <<>>]

\* Variant: the except clause is missing and a failed lookup propagates.
get_all_retailer_ids_Uncaught(catalog_id, resp) == LookupProducts(resp)

get_all_retailer_ids(catalog_id, resp) ==
    LET r == LookupProducts(resp) IN
    IF r.raised THEN [raised |-> FALSE, ids |-> <<>>]   \* app.py:61-63
    ELSE r

ProductItems(retailer_ids) ==
    [i \in 1..Len(retailer_ids) |-> [product_retailer_id |-> retailer_ids[i]]]

\* Variant: no fallback to "default_id" (app.py:87-88 left out).
get_catalog_message_input_NoFallback(recipient, text, catalog_id, thread_id, resp) ==
    [type |-> "interactive", to |-> recipient, text |-> text,
     link |-> None, catalog_id |-> catalog_id,
     items |-> ProductItems(get_all_retailer_ids(catalog_id, resp).ids),
     context |-> Context(thread_id)]

get_catalog_message_input(recipient, text, catalog_id, thread_id, resp) ==
    LET found == get_all_retailer_ids(catalog_id, resp).ids
        retailer_ids == IF found = <<>> THEN <<"default_id">> ELSE found
    IN  [type |-> "interactive", to |-> recipient, text |-> text,
         link |-> None, catalog_id |-> catalog_id,
         items |-> ProductItems(retailer_ids),
         context |-> Context(thread_id)]

\* send_message: one POST; the outcome is logged and otherwise ignored.
SendOutcomes == {"ok", "error"}

send_message(site, data, outcome) ==
    [site |-> site, ok |-> (outcome = "ok"), msg |-> data]

---------------------------------------------------------------------------
(* Inbound webhook bodies.  entry, changes and messages are lists ("absent",*)
(* "empty" or "ok": a first element is there); value is a dict ("absent",  *)
(* "empty" or "ok").  The fields below a missing level are never read.     *)

Message(type, id, context, has_text, text, interactive, button) ==
    [type |-> type,                \* message.get("type")
     id |-> id,                    \* message["id"], None when the key is absent
     context |-> context,          \* message["context"]["id"], None when absent
     has_text |-> has_text,        \* the "text" key is there
     text |-> text,                \* message["text"]["body"]
     interactive |-> interactive,  \* message["interactive"]["type"]
     button |-> button]            \* message["interactive"]["button_reply"]["id"]

TextMessage(id, context, text) ==
    Message("text", id, context, TRUE, text, None, None)

ButtonMessage(id, context, interactive, button) ==
    Message("interactive", id, context, FALSE, NoUserText, interactive, button)

Body(object, entry, changes, value, statuses, messages, contacts, wa_id, message) ==
    [object |-> object, entry |-> entry, changes |-> changes, value |-> value,
     statuses |-> statuses, messages |-> messages, contacts |-> contacts,
     wa_id |-> wa_id, message |-> message]

MessageEvent(wa_id, message) ==
    Body(TRUE, "ok", "ok", "ok", FALSE, "ok", TRUE, wa_id, message)

NoMessageField == Message(None, None, None, FALSE, NoUserText, None, None)

NoBody == Body(FALSE, "absent", "absent", "absent", FALSE, "absent", FALSE,
               None, NoMessageField)

Catalogo      == <<"/","c","a","t","a","l","o","g","o">>
PRODUCTOS     == <<"/","P","R","O","D","U","C","T","O","S">>
CatalogoPad   == <<" "," ","/","c","a","t","a","l","o","g","o"," "," ">>
ProductosTab  == <<"\t","/","P","r","o","d","u","c","t","o","s","\n">>
CatalogoSplit == <<"/","c","a","t","a"," ","l","o","g","o">>
Hola          == <<"H","o","l","a">>
HolaPad       == <<" ","H","o","l","a"," ">>
Empty         == <<>>
Blank         == <<" ","\t"," ">>

Texts == {Catalogo, PRODUCTOS, CatalogoPad, ProductosTab, CatalogoSplit,
          Hola, HolaPad, Empty, Blank}

\* Bodies with a missing or empty level of the path, and status updates.
MalformedBodies ==
    LET m == TextMessage("m1", None, Hola) IN
    {Body(FALSE, "ok", "ok", "ok", FALSE, "ok", TRUE, "u1", m),
     Body(TRUE, "absent", "absent", "absent", FALSE, "absent", FALSE, None, NoMessageField),
     Body(TRUE, "empty", "absent", "absent", FALSE, "absent", FALSE, None, NoMessageField),
     Body(TRUE, "ok", "absent", "absent", FALSE, "absent", FALSE, None, NoMessageField),
     Body(TRUE, "ok", "empty", "absent", FALSE, "absent", FALSE, None, NoMessageField),
     Body(TRUE, "ok", "ok", "absent", FALSE, "absent", FALSE, None, NoMessageField),
     Body(TRUE, "ok", "ok", "empty", FALSE, "absent", FALSE, None, NoMessageField),
     Body(TRUE, "ok", "ok", "ok", FALSE, "absent", TRUE, "u1", NoMessageField),
     Body(TRUE, "ok", "ok", "ok", FALSE, "empty", TRUE, "u1", NoMessageField)}

StatusBodies ==
    {Body(TRUE, "ok", "ok", "ok", TRUE, "absent", FALSE, None, NoMessageField),
     Body(FALSE, "ok", "ok", "ok", TRUE, "absent", FALSE, None, NoMessageField),
     Body(TRUE, "ok", "ok", "ok", TRUE, "ok", TRUE, "u1",
          TextMessage("m1", None, Hola)),
     Body(TRUE, "ok", "ok", "ok", TRUE, "ok", TRUE, "u2",
          ButtonMessage("m1", None, "button_reply", "catalog"))}

\* Message events that pass is_valid_whatsapp_message.
TextEvents ==
    {MessageEvent("u1", TextMessage("m1", None, t)) : t \in Texts}
    \cup {MessageEvent("u2", TextMessage("m2", None, t)) : t \in {Hola, PRODUCTOS}}

ButtonEvents ==
    {MessageEvent("u1", ButtonMessage("m1", None, "button_reply", b)) :
        b \in {"catalog", "info", "other"}}
    \cup {MessageEvent("u1", ButtonMessage("m1", None, "list_reply", None)),
          MessageEvent("u1", ButtonMessage("m1", None, None, None)),
          MessageEvent("u2", ButtonMessage("m2", "c1", "button_reply", "info"))}

\* The message id and the replied-to id, present, empty or absent.
ThreadEvents ==
    {MessageEvent("u1", TextMessage(id, ctx, Hola)) :
        id \in {"m1", "", None}, ctx \in {"c1", "", None}}
    \cup {MessageEvent("u1", TextMessage(id, ctx, Catalogo)) :
            id \in {"m1", ""}, ctx \in {"c1", None}}

OtherEvents ==
    {MessageEvent("u1", Message("image", "m1", None, FALSE, NoUserText, None, None)),
     MessageEvent("u1", Message("text", "m1", None, FALSE, NoUserText, None, None)),
     Body(TRUE, "ok", "ok", "ok", FALSE, "ok", FALSE, None,
          TextMessage("m1", None, Hola))}

InputsSeq ==
    MalformedBodies \cup StatusBodies \cup TextEvents \cup ButtonEvents
    \cup ThreadEvents \cup OtherEvents

\* The bodies two overlapping requests draw from: every route once.
InputsConc ==
    {MessageEvent(u, TextMessage("m1", None, Hola)) : u \in Users}
    \cup {MessageEvent("u1", TextMessage("m1", "c1", Catalogo)),
          MessageEvent("u2", ButtonMessage("m2", None, "button_reply", "info")),
          Body(TRUE, "ok", "ok", "ok", TRUE, "ok", TRUE, "u1",
               TextMessage("m1", None, Hola))}

\* The catalog-service answers a request of the pipeline may meet.
PipelineCatalogResponses ==
    {CatalogResponse("network_error", "<none>", <<>>),
     CatalogResponse("ok", "list", <<>>),
     CatalogResponse("ok", "data_list", <<Product("r2"), Product(None), Product("r1")>>)}

---------------------------------------------------------------------------
(* handle_message, app.py:371-385, and what it calls *)

\* Variant: the status-update test of app.py:374 never succeeds.
StatusCheck_Ignored(b) ==
    IF b.entry = "empty" \/ (b.entry = "ok" /\ b.changes = "empty")
    THEN "raise" ELSE "falsy"

\* app.py:374: body.get("entry", [{}])[0].get("changes", [{}])[0]
\*                 .get("value", {}).get("statuses")
StatusCheck(b) ==
    IF b.entry = "empty" THEN "raise"
    ELSE IF b.entry = "absent" THEN "falsy"
    ELSE IF b.changes = "empty" THEN "raise"
    ELSE IF b.changes = "absent" THEN "falsy"
    ELSE IF b.value = "ok" /\ b.statuses THEN "truthy"
    ELSE "falsy"

is_valid_whatsapp_message(b) ==
    /\ b.object
    /\ b.entry = "ok"
    /\ b.changes = "ok"
    /\ b.value = "ok"
    /\ b.messages = "ok"

\* Variant: the thread id is always the message's own id.
ThreadId_OwnId(message) ==
    IF message.id = None THEN [raised |-> TRUE, id |-> None]
    ELSE [raised |-> FALSE, id |-> message.id]

\* app.py:231: message.get("context", {}).get("id") or message["id"]
ThreadId(message) ==
    IF Truthy(message.context) THEN [raised |-> FALSE, id |-> message.context]
    ELSE IF message.id = None THEN [raised |-> TRUE, id |-> None]
    ELSE [raised |-> FALSE, id |-> message.id]

\* Variant: the membership test of app.py:234 is dropped.
NeedsWelcome_Always(wa_id, greeted) == TRUE

\* app.py:234
NeedsWelcome(wa_id, greeted) == wa_id \notin greeted

\* app.py:241-242
Productos == <<"/","p","r","o","d","u","c","t","o","s">>
CatalogAliases == {Catalogo, Productos}

\* Variant: the body is stripped but not lower-cased.
NormalizeBody_NoLower(text) == Strip(text)

NormalizeBody(text) == Strip(Lower(text))

\* Variant: a button reply with an unknown id is answered like "info".
RouteOf_UnknownButtonIsInfo(message) ==
    IF message.type = "interactive" THEN
        IF message.interactive = "button_reply" THEN
            IF message.button = "catalog" THEN "catalog_generate"
            ELSE "info_generate"
        ELSE "respond"
    ELSE IF message.type = "text" THEN
        IF ~message.has_text THEN "raise"
        ELSE IF NormalizeBody(message.text) \in CatalogAliases
             THEN "catalog_generate"
             ELSE "reply_generate"
    ELSE "respond"

\* app.py:238-247 and 205-219: where the message goes after the welcome.
RouteOf(message) ==
    IF message.type = "interactive" THEN
        IF message.interactive = "button_reply" THEN
            IF message.button = "catalog" THEN "catalog_generate"
            ELSE IF message.button = "info" THEN "info_generate"
            ELSE "respond"
        ELSE "respond"
    ELSE IF message.type = "text" THEN
        IF ~message.has_text THEN "raise"
        ELSE IF NormalizeBody(message.text) \in CatalogAliases
             THEN "catalog_generate"
             ELSE "reply_generate"
    ELSE "respond"

NoLocal ==
    [wa_id |-> None, thread_id |-> None, welcomed |-> FALSE,
     greeted_on_arrival |-> FALSE, text |-> NoText, ai_failed |-> FALSE,
     data |-> NoMessage]

---------------------------------------------------------------------------
(* The steps of one request.  Every external call (completion, catalog     *)
(* lookup, send) and every access to SENT_WELCOME is a step of its own, so *)
(* that requests of other threads interleave exactly there.                *)

Finish(r, status) ==
    /\ pc' = [pc EXCEPT ![r] = "done"]
    /\ response' = [response EXCEPT ![r] = status]

CallAI(r, prompt, outcome) ==
    /\ aiCalls' = [aiCalls EXCEPT ![r] = Append(@, prompt)]
    /\ local' = [local EXCEPT ![r].text = generate_response(prompt, outcome),
                              ![r].ai_failed = (outcome # "ok")]

Send(r, site, data, outcome) ==
    sends' = [sends EXCEPT ![r] = Append(@, send_message(site, data, outcome))]

\* A request arrives (webhook_post, app.py:368).
Receive(r, inputs) ==
    /\ pc[r] \in {"idle", "done"}
    /\ started < MaxRequests
    /\ \E b \in inputs :
        /\ body' = [body EXCEPT ![r] = b]
        /\ local' = [local EXCEPT ![r] =
                        [NoLocal EXCEPT !.greeted_on_arrival =
                                            (b.wa_id \in SENT_WELCOME)]]
    /\ pc' = [pc EXCEPT ![r] = "handle"]
    /\ sends' = [sends EXCEPT ![r] = <<>>]
    /\ aiCalls' = [aiCalls EXCEPT ![r] = <<>>]
    /\ catalogCalls' = [catalogCalls EXCEPT ![r] = 0]
    /\ response' = [response EXCEPT ![r] = 0]
    /\ started' = started + 1
    /\ UNCHANGED <<SENT_WELCOME, welcomeCount, VERIFY_TOKEN, catalog, verification>>

\* handle_message up to the first read of SENT_WELCOME: app.py:372-382 and
\* process_whatsapp_message, app.py:226-231.  An exception other than
\* JSONDecodeError leaves handle_message and the request ends with 500.
HandleMessage(r) ==
    /\ pc[r] = "handle"
    /\ LET b == body[r]
           status == StatusCheck(b)
           thread == ThreadId(b.message)
       IN  IF status = "raise" THEN Finish(r, 500) /\ UNCHANGED local
           ELSE IF status = "truthy" THEN Finish(r, 200) /\ UNCHANGED local
           ELSE IF ~is_valid_whatsapp_message(b)
                THEN Finish(r, 404) /\ UNCHANGED local
           ELSE IF ~b.contacts \/ thread.raised
                THEN Finish(r, 500) /\ UNCHANGED local
           ELSE /\ pc' = [pc EXCEPT ![r] = "check_welcome"]
                /\ local' = [local EXCEPT ![r].wa_id = b.wa_id,
                                          ![r].thread_id = thread.id]
                /\ UNCHANGED response
    /\ UNCHANGED <<SENT_WELCOME, body, sends, aiCalls, catalogCalls,
                   welcomeCount, started, VERIFY_TOKEN, catalog, verification>>

\* Variant: the user is added to the set at the test, before the sends.
CheckWelcome_MarkFirst(r) ==
    /\ pc[r] = "check_welcome"
    /\ IF NeedsWelcome(local[r].wa_id, SENT_WELCOME)
       THEN /\ pc' = [pc EXCEPT ![r] = "welcome_generate"]
            /\ local' = [local EXCEPT ![r].welcomed = TRUE]
            /\ SENT_WELCOME' = SENT_WELCOME \cup {local[r].wa_id}
       ELSE /\ pc' = [pc EXCEPT ![r] = "route"]
            /\ UNCHANGED <<local, SENT_WELCOME>>
    /\ UNCHANGED <<body, sends, aiCalls, catalogCalls, response,
                   welcomeCount, started, VERIFY_TOKEN, catalog, verification>>

\* app.py:234
CheckWelcome(r) ==
    /\ pc[r] = "check_welcome"
    /\ IF NeedsWelcome(local[r].wa_id, SENT_WELCOME)
       THEN /\ pc' = [pc EXCEPT ![r] = "welcome_generate"]
            /\ local' = [local EXCEPT ![r].welcomed = TRUE]
       ELSE /\ pc' = [pc EXCEPT ![r] = "route"]
            /\ UNCHANGED local
    /\ UNCHANGED <<SENT_WELCOME, body, sends, aiCalls, catalogCalls, response,
                   welcomeCount, started, VERIFY_TOKEN, catalog, verification>>

\* send_welcome_message, app.py:149-150
WelcomeGenerate(r) ==
    /\ pc[r] = "welcome_generate"
    /\ \E outcome \in AIOutcomes : CallAI(r, WelcomePrompt, outcome)
    /\ pc' = [pc EXCEPT ![r] = "welcome_text"]
    /\ UNCHANGED <<SENT_WELCOME, body, sends, catalogCalls, response,
                   welcomeCount, started, VERIFY_TOKEN, catalog, verification>>

\* Variant: a failed send of the welcome Text ends the request.
WelcomeSendText_AbortOnFailure(r) ==
    /\ pc[r] = "welcome_text"
    /\ \E outcome \in SendOutcomes :
        /\ Send(r, "welcome_text",
                get_text_message_input(local[r].wa_id, local[r].text,
                                       local[r].thread_id),
                outcome)
        /\ IF outcome = "ok"
           THEN pc' = [pc EXCEPT ![r] = "welcome_image"] /\ UNCHANGED response
           ELSE Finish(r, 500)
    /\ welcomeCount' = [welcomeCount EXCEPT ![local[r].wa_id] = @ + 1]
    /\ UNCHANGED <<SENT_WELCOME, body, local, aiCalls, catalogCalls,
                   started, VERIFY_TOKEN, catalog, verification>>

\* send_welcome_message, app.py:152-153
WelcomeSendText(r) ==
    /\ pc[r] = "welcome_text"
    /\ \E outcome \in SendOutcomes :
        Send(r, "welcome_text",
             get_text_message_input(local[r].wa_id, local[r].text,
                                    local[r].thread_id),
             outcome)
    /\ welcomeCount' = [welcomeCount EXCEPT ![local[r].wa_id] = @ + 1]
    /\ pc' = [pc EXCEPT ![r] = "welcome_image"]
    /\ UNCHANGED <<SENT_WELCOME, body, local, aiCalls, catalogCalls, response,
                   started, VERIFY_TOKEN, catalog, verification>>

\* Variant: the welcome image is never sent.
WelcomeSendImage_Skipped(r) ==
    /\ pc[r] = "welcome_image"
    /\ pc' = [pc EXCEPT ![r] = "mark_welcomed"]
    /\ UNCHANGED <<SENT_WELCOME, body, local, sends, aiCalls, catalogCalls,
                   response, welcomeCount, started, VERIFY_TOKEN, catalog,
                   verification>>

\* send_welcome_message, app.py:155-166
WelcomeSendImage(r) ==
    /\ pc[r] = "welcome_image"
    /\ \E outcome \in SendOutcomes :
        Send(r, "welcome_image",
             image_payload(local[r].wa_id, local[r].thread_id), outcome)
    /\ pc' = [pc EXCEPT ![r] = "mark_welcomed"]
    /\ UNCHANGED <<SENT_WELCOME, body, local, aiCalls, catalogCalls, response,
                   welcomeCount, started, VERIFY_TOKEN, catalog, verification>>

\* Variant: the set is replaced, not added to, and earlier members are lost.
MarkWelcomed_LostUpdate(r) ==
    /\ pc[r] = "mark_welcomed"
    /\ SENT_WELCOME' = {local[r].wa_id}
    /\ pc' = [pc EXCEPT ![r] = "route"]
    /\ UNCHANGED <<body, local, sends, aiCalls, catalogCalls, response,
                   welcomeCount, started, VERIFY_TOKEN, catalog, verification>>

\* app.py:236
MarkWelcomed(r) ==
    /\ pc[r] = "mark_welcomed"
    /\ SENT_WELCOME' = SENT_WELCOME \cup {local[r].wa_id}
    /\ pc' = [pc EXCEPT ![r] = "route"]
    /\ UNCHANGED <<body, local, sends, aiCalls, catalogCalls, response,
                   welcomeCount, started, VERIFY_TOKEN, catalog, verification>>

\* Variant: the request is answered at routing time and the routed action
\* runs after the response.
Route_RespondFirst(r) ==
    /\ pc[r] = "route"
    /\ LET target == RouteOf(body[r].message)
       IN  IF target = "raise" THEN Finish(r, 500)
           ELSE /\ pc' = [pc EXCEPT ![r] = target]
                /\ response' = [response EXCEPT ![r] = 200]
    /\ UNCHANGED <<SENT_WELCOME, body, local, sends, aiCalls, catalogCalls,
                   welcomeCount, started, VERIFY_TOKEN, catalog, verification>>

\* app.py:238-244 and process_interactive_response, app.py:206-213
Route(r) ==
    /\ pc[r] = "route"
    /\ LET target == RouteOf(body[r].message)
       IN  IF target = "raise" THEN Finish(r, 500)
           ELSE pc' = [pc EXCEPT ![r] = target] /\ UNCHANGED response
    /\ UNCHANGED <<SENT_WELCOME, body, local, sends, aiCalls, catalogCalls,
                   welcomeCount, started, VERIFY_TOKEN, catalog, verification>>

\* send_catalog_message, app.py:142-143
CatalogGenerate(r) ==
    /\ pc[r] = "catalog_generate"
    /\ \E outcome \in AIOutcomes : CallAI(r, CatalogPrompt, outcome)
    /\ pc' = [pc EXCEPT ![r] = "catalog_build"]
    /\ UNCHANGED <<SENT_WELCOME, body, sends, catalogCalls, response,
                   welcomeCount, started, VERIFY_TOKEN, catalog, verification>>

\* send_catalog_message, app.py:144: the catalog lookup and the envelope
CatalogBuild(r) ==
    /\ pc[r] = "catalog_build"
    /\ \E resp \in PipelineCatalogResponses :
        local' = [local EXCEPT ![r].data =
                    get_catalog_message_input(local[r].wa_id, local[r].text,
                                              CATALOG_ID, local[r].thread_id,
                                              resp)]
    /\ catalogCalls' = [catalogCalls EXCEPT ![r] = @ + 1]
    /\ pc' = [pc EXCEPT ![r] = "catalog_send"]
    /\ UNCHANGED <<SENT_WELCOME, body, sends, aiCalls, response,
                   welcomeCount, started, VERIFY_TOKEN, catalog, verification>>

\* send_catalog_message, app.py:145
CatalogSend(r) ==
    /\ pc[r] = "catalog_send"
    /\ \E outcome \in SendOutcomes : Send(r, "catalog", local[r].data, outcome)
    /\ pc' = [pc EXCEPT ![r] = "respond"]
    /\ UNCHANGED <<SENT_WELCOME, body, local, aiCalls, catalogCalls, response,
                   welcomeCount, started, VERIFY_TOKEN, catalog, verification>>

\* process_interactive_response, app.py:215-216
InfoGenerate(r) ==
    /\ pc[r] = "info_generate"
    /\ \E outcome \in AIOutcomes : CallAI(r, InfoPrompt, outcome)
    /\ pc' = [pc EXCEPT ![r] = "info_send"]
    /\ UNCHANGED <<SENT_WELCOME, body, sends, catalogCalls, response,
                   welcomeCount, started, VERIFY_TOKEN, catalog, verification>>

\* process_interactive_response, app.py:217-218
InfoSend(r) ==
    /\ pc[r] = "info_send"
    /\ \E outcome \in SendOutcomes :
        Send(r, "info",
             get_text_message_input(local[r].wa_id, local[r].text,
                                    local[r].thread_id),
             outcome)
    /\ pc' = [pc EXCEPT ![r] = "respond"]
    /\ UNCHANGED <<SENT_WELCOME, body, local, aiCalls, catalogCalls, response,
                   welcomeCount, started, VERIFY_TOKEN, catalog, verification>>

\* app.py:245: the completion call gets the lower-cased, stripped body
ReplyGenerate(r) ==
    /\ pc[r] = "reply_generate"
    /\ \E outcome \in AIOutcomes :
        CallAI(r, UserPrompt(NormalizeBody(body[r].message.text)), outcome)
    /\ pc' = [pc EXCEPT ![r] = "reply_send"]
    /\ UNCHANGED <<SENT_WELCOME, body, sends, catalogCalls, response,
                   welcomeCount, started, VERIFY_TOKEN, catalog, verification>>

\* app.py:246-247
ReplySend(r) ==
    /\ pc[r] = "reply_send"
    /\ \E outcome \in SendOutcomes :
        Send(r, "reply",
             get_text_message_input(local[r].wa_id, local[r].text,
                                    local[r].thread_id),
             outcome)
    /\ pc' = [pc EXCEPT ![r] = "respond"]
    /\ UNCHANGED <<SENT_WELCOME, body, local, aiCalls, catalogCalls, response,
                   welcomeCount, started, VERIFY_TOKEN, catalog, verification>>

\* app.py:380
Respond(r) ==
    /\ pc[r] = "respond"
    /\ Finish(r, 200)
    /\ UNCHANGED <<SENT_WELCOME, body, local, sends, aiCalls, catalogCalls,
                   welcomeCount, started, VERIFY_TOKEN, catalog, verification>>

---------------------------------------------------------------------------
(* One application of the catalog functions to a catalog-service answer *)

NoResult == [raised |-> FALSE, ids |-> <<>>]

CatalogIdle ==
    [pc |-> "idle", resp |-> CatalogResponse("ok", "null", <<>>),
     result |-> NoResult, envelope |-> NoMessage]

Resolve ==
    /\ catalog.pc = "start"
    /\ catalog' = [catalog EXCEPT
                     !.pc = "resolved",
                     !.result = get_all_retailer_ids(CATALOG_ID, catalog.resp)]
    /\ UNCHANGED <<pipelineVars, VERIFY_TOKEN, verification>>

Build ==
    /\ catalog.pc = "resolved"
    /\ catalog' = [catalog EXCEPT
                     !.pc = "built",
                     !.envelope = get_catalog_message_input(
                                     "u1", Completion(CatalogPrompt),
                                     CATALOG_ID, "m1", catalog.resp)]
    /\ UNCHANGED <<pipelineVars, VERIFY_TOKEN, verification>>

---------------------------------------------------------------------------
(* verify(), app.py:387-400 *)

\* Variant: the mode is not compared with "subscribe".
verify_AnyMode(mode, token, challenge, secret) ==
    IF Truthy(mode) /\ Truthy(token) THEN
        IF token = secret
        THEN [status |-> 200, payload |-> challenge]
        ELSE [status |-> 403, payload |-> "Verification failed"]
    ELSE [status |-> 400, payload |-> "Missing parameters"]

verify(mode, token, challenge, secret) ==
    IF Truthy(mode) /\ Truthy(token) THEN
        IF mode = "subscribe" /\ token = secret
        THEN [status |-> 200, payload |-> challenge]
        ELSE [status |-> 403, payload |-> "Verification failed"]
    ELSE [status |-> 400, payload |-> "Missing parameters"]

Modes == {None, "", "subscribe", "unsubscribe"}
Tokens == {None, "", "secret", "wrong"}
Challenges == {None, "1158201444", "challenge"}
Secrets == {None, "", "secret"}

VerificationIdle ==
    [pc |-> "idle", mode |-> None, token |-> None, challenge |-> None,
     status |-> 0, payload |-> None]

Verify ==
    /\ verification.pc = "start"
    /\ LET v == verify(verification.mode, verification.token,
                       verification.challenge, VERIFY_TOKEN)
       IN  verification' = [verification EXCEPT !.pc = "done",
                                                !.status = v.status,
                                                !.payload = v.payload]
    /\ UNCHANGED <<pipelineVars, VERIFY_TOKEN, catalog>>

---------------------------------------------------------------------------
(* Specifications *)

PipelineInit(procs) ==
    /\ SENT_WELCOME = {}
    /\ pc = [r \in procs |-> "idle"]
    /\ body = [r \in procs |-> NoBody]
    /\ local = [r \in procs |-> NoLocal]
    /\ sends = [r \in procs |-> <<>>]
    /\ aiCalls = [r \in procs |-> <<>>]
    /\ catalogCalls = [r \in procs |-> 0]
    /\ response = [r \in procs |-> 0]
    /\ welcomeCount = [u \in Users |-> 0]
    /\ started = 0

Init ==
    /\ PipelineInit(Procs)
    /\ VERIFY_TOKEN = "secret"
    /\ catalog = CatalogIdle
    /\ verification = VerificationIdle

InitSeq ==
    /\ PipelineInit(SeqProcs)
    /\ VERIFY_TOKEN = "secret"
    /\ catalog = CatalogIdle
    /\ verification = VerificationIdle

InitCatalog ==
    /\ PipelineInit(SeqProcs)
    /\ VERIFY_TOKEN = "secret"
    /\ catalog \in {[CatalogIdle EXCEPT !.pc = "start", !.resp = resp] :
                       resp \in CatalogResponses}
    /\ verification = VerificationIdle

InitVerify ==
    /\ PipelineInit(SeqProcs)
    /\ VERIFY_TOKEN \in Secrets
    /\ catalog = CatalogIdle
    /\ verification \in {[VerificationIdle EXCEPT !.pc = "start", !.mode = m,
                             !.token = t, !.challenge = c] :
                            m \in Modes, t \in Tokens, c \in Challenges}

Step(r) ==
    \/ HandleMessage(r)
    \/ CheckWelcome(r)
    \/ WelcomeGenerate(r)
    \/ WelcomeSendText(r)
    \/ WelcomeSendImage(r)
    \/ MarkWelcomed(r)
    \/ Route(r)
    \/ CatalogGenerate(r)
    \/ CatalogBuild(r)
    \/ CatalogSend(r)
    \/ InfoGenerate(r)
    \/ InfoSend(r)
    \/ ReplyGenerate(r)
    \/ ReplySend(r)
    \/ Respond(r)

Next == \E r \in Procs : Receive(r, InputsConc) \/ Step(r)

NextSeq == \E r \in SeqProcs : Receive(r, InputsSeq) \/ Step(r)

NextCatalog == Resolve \/ Build

NextVerify == Verify

Spec == Init /\ [][Next]_vars

SpecSeq == InitSeq /\ [][NextSeq]_vars

SpecCatalog == InitCatalog /\ [][NextCatalog]_vars

SpecVerify == InitVerify /\ [][NextVerify]_vars

---------------------------------------------------------------------------
(* Properties *)

Requests == DOMAIN pc

Sites(r) == {sends[r][i].site : i \in 1..Len(sends[r])}

SendsAt(r, site) == {i \in 1..Len(sends[r]) : sends[r][i].site = site}

WelcomeSites == {"welcome_text", "welcome_image"}

\* Positions of a request at which send_welcome_message has returned.
PastWelcome ==
    {"mark_welcomed", "route", "catalog_generate", "catalog_build",
     "catalog_send", "info_generate", "info_send", "reply_generate",
     "reply_send", "respond"}

\* C1: two overlapping requests of a user who is not yet greeted produce one
\* welcome Text between them: no user is ever sent a second welcome Text.
C1_OneWelcomePerUserUnderRace ==
    \A u \in Users : welcomeCount[u] <= 1

\* C2: a request that found its user ungreeted sends the welcome Text first,
\* the welcome Image second, and only then anything else; once the welcome
\* has returned both have been sent.
C2_WelcomeComesFirst ==
    \A r \in Requests :
        local[r].welcomed =>
            LET s == sends[r] IN
            /\ Len(s) >= 1 => s[1].site = "welcome_text" /\ s[1].msg.type = "text"
            /\ Len(s) >= 2 => s[2].site = "welcome_image" /\ s[2].msg.type = "image"
            /\ \A i \in 3..Len(s) : s[i].site \notin WelcomeSites
            /\ (pc[r] \in PastWelcome \/ (pc[r] = "done" /\ response[r] # 0))
                   => Len(s) >= 2

C2_Witness ==
    \E r \in Requests :
        /\ local[r].welcomed
        /\ pc[r] = "done"
        /\ response[r] = 200
        /\ Len(sends[r]) = 3
        /\ sends[r][3].site = "reply"

C3_NoSecondWelcome ==
    /\ \A u \in Users : welcomeCount[u] <= 1
    /\ \A r \in Requests :
          local[r].greeted_on_arrival =>
              /\ ~local[r].welcomed
              /\ Sites(r) \cap WelcomeSites = {}
              /\ \A i \in 1..Len(aiCalls[r]) : aiCalls[r][i] # WelcomePrompt

\* C3: with requests handled one after another, a user is welcomed at most
\* once, a request of a user who is already greeted sends no welcome Text
\* or Image, and the greeted set never loses a member.
C3_WelcomeOnlyOnce ==
    /\ []C3_NoSecondWelcome
    /\ [][SENT_WELCOME \subseteq SENT_WELCOME']_vars

C3_Witness ==
    \E r \in Requests :
        /\ local[r].greeted_on_arrival
        /\ pc[r] = "done"
        /\ response[r] = 200
        /\ Sites(r) = {"reply"}
        /\ welcomeCount[local[r].wa_id] = 1

---------------------------------------------------------------------------
(* The catalog functions, under SpecCatalog *)

ListShapes == {"list", "data_list"}

HasRetailerId(product) == product.retailer_id \notin {None, ""}

\* The lookup failed (network error, non-2xx status, malformed body) or it
\* named no retailer identifier.
LookupFailedOrEmpty(resp) ==
    \/ resp.outcome # "ok"
    \/ resp.shape \notin ListShapes
    \/ \E i \in 1..Len(resp.products) : ~resp.products[i].dict
    \/ \A i \in 1..Len(resp.products) : ~HasRetailerId(resp.products[i])

DefaultItems == <<[product_retailer_id |-> "default_id"]>>

\* C4 as stated: on a failed or empty lookup get_all_retailer_ids itself
\* returns ["default_id"], and it raises nothing.
C4_ResolverReturnsDefault ==
    (catalog.pc \in {"resolved", "built"} /\ LookupFailedOrEmpty(catalog.resp))
        => /\ ~catalog.result.raised
           /\ catalog.result.ids = <<"default_id">>

\* C4, amended: on a failed or empty lookup get_all_retailer_ids returns the
\* empty list and raises nothing, whatever the lookup did; the snapshot
\* ["default_id"] is what its caller get_catalog_message_input puts in the
\* envelope.
C4_ResolverReturnsEmpty ==
    /\ catalog.pc \in {"resolved", "built"} => ~catalog.result.raised
    /\ (catalog.pc \in {"resolved", "built"} /\ LookupFailedOrEmpty(catalog.resp))
          => catalog.result.ids = <<>>
    /\ (catalog.pc = "built" /\ LookupFailedOrEmpty(catalog.resp))
          => catalog.envelope.items = DefaultItems

C4_Witness ==
    /\ catalog.pc = "built"
    /\ catalog.resp.outcome = "ok"
    /\ catalog.resp.products = <<Product("r1"), NotADict>>
    /\ catalog.result.ids = <<>>

\* C5: the envelope's section is never empty: it lists the records that
\* carry a retailer identifier, one item each and in the order received, or
\* the single item "default_id" when the lookup failed or named none.
C5_EnvelopeItems ==
    catalog.pc = "built" =>
        LET identified == SelectSeq(catalog.resp.products, HasRetailerId)
            items == catalog.envelope.items
        IN  /\ items # <<>>
            /\ IF LookupFailedOrEmpty(catalog.resp)
               THEN items = DefaultItems
               ELSE /\ Len(items) = Len(identified)
                    /\ \A i \in 1..Len(items) :
                          items[i].product_retailer_id = identified[i].retailer_id

C5_Witness ==
    /\ catalog.pc = "built"
    /\ catalog.resp.shape = "data_list"
    /\ catalog.resp.products = <<Product("r2"), Product("r1")>>
    /\ Len(catalog.envelope.items) = 2

---------------------------------------------------------------------------
(* Routing of text messages, under SpecSeq *)

Answered(r) == pc[r] = "done" /\ response[r] = 200

TextOf(r) == body[r].message.text

IsTextRequest(r) ==
    /\ is_valid_whatsapp_message(body[r])
    /\ ~body[r].statuses
    /\ body[r].message.type = "text"
    /\ body[r].message.has_text

\* "/catalogo", "/PRODUCTOS" and padded spellings of them
CommandBodies == {Catalogo, PRODUCTOS, CatalogoPad, ProductosTab}

\* empty and whitespace-only bodies
BlankBodies == {Empty, Blank}

UserPrompts(r) ==
    {i \in 1..Len(aiCalls[r]) : aiCalls[r][i].fixed = ""}

CatalogSent(r) ==
    /\ sends[r] # <<>>
    /\ sends[r][Len(sends[r])].site = "catalog"
    /\ sends[r][Len(sends[r])].msg.type = "interactive"
    /\ Cardinality(SendsAt(r, "catalog")) = 1
    /\ catalogCalls[r] = 1

\* C6 as stated: a catalog command is answered with the Catalog message and
\* generate_response is not called for it (the only completion call such a
\* request may make is the welcome's).
C6_CommandWithoutCompletion ==
    \A r \in Requests :
        (IsTextRequest(r) /\ TextOf(r) \in CommandBodies /\ Answered(r)) =>
            /\ CatalogSent(r)
            /\ \A i \in 1..Len(aiCalls[r]) : aiCalls[r][i] = WelcomePrompt

\* C6, amended: a catalog command is answered with exactly one Catalog
\* message and no reply Text; the user's text is never handed to
\* generate_response, which is called once for the action, with the fixed
\* catalog prompt, to write the Catalog message's body.
C6_CommandRoutesToCatalog ==
    \A r \in Requests :
        (IsTextRequest(r) /\ TextOf(r) \in CommandBodies /\ Answered(r)) =>
            /\ CatalogSent(r)
            /\ "reply" \notin Sites(r)
            /\ UserPrompts(r) = {}
            /\ Cardinality({i \in 1..Len(aiCalls[r]) :
                               aiCalls[r][i] = CatalogPrompt}) = 1
            /\ aiCalls[r][Len(aiCalls[r])] = CatalogPrompt

C6_Witness ==
    \E r \in Requests :
        /\ IsTextRequest(r)
        /\ TextOf(r) = PRODUCTOS
        /\ Answered(r)
        /\ CatalogSent(r)

\* C7: a text message whose body is empty or whitespace only is answered
\* with a Text that no completion produced (the fixed notice), and
\* generate_response is not called with the user's text.
C7_BlankBodyGetsNotice ==
    \A r \in Requests :
        (IsTextRequest(r) /\ TextOf(r) \in BlankBodies /\ Answered(r)) =>
            /\ UserPrompts(r) = {}
            /\ sends[r] # <<>>
            /\ LET last == sends[r][Len(sends[r])] IN
               /\ last.msg.type = "text"
               /\ last.site \notin WelcomeSites
               /\ ~last.msg.text.apology
               /\ last.msg.text.prompt = NoPrompt

---------------------------------------------------------------------------
(* Threading, under SpecSeq *)

\* The replied-to id when the inbound message has one, else its own id.
CorrelationId(message) ==
    IF message.context \notin {None, ""} THEN message.context ELSE message.id

\* C8 as stated: every outbound message carries a context message id, and
\* it is the inbound message's correlation id.
C8_EverySendCarriesCorrelationId ==
    \A r \in Requests : \A i \in 1..Len(sends[r]) :
        /\ sends[r][i].msg.context # None
        /\ sends[r][i].msg.context = CorrelationId(body[r].message)

\* C8, amended: every outbound message carries the inbound message's
\* correlation id as its context message id when that id is a non-empty
\* string, and no context at all when it is empty; no outbound message
\* carries any other id.
C8_SendsCarryCorrelationIdIfAny ==
    \A r \in Requests : \A i \in 1..Len(sends[r]) :
        LET c == CorrelationId(body[r].message)
            context == sends[r][i].msg.context
        IN  /\ c # "" => context = c
            /\ c = "" => context = None
            /\ sends[r][i].msg.to = body[r].wa_id

C8_Witness ==
    \E r \in Requests :
        /\ body[r].message.context = "c1"
        /\ body[r].message.id = "m1"
        /\ Answered(r)
        /\ Len(sends[r]) = 3
        /\ \A i \in 1..3 : sends[r][i].msg.context = "c1"

---------------------------------------------------------------------------
(* Status updates, under SpecSeq *)

\* A non-empty statuses field under the first change's value.
IsStatusUpdate(b) ==
    b.entry = "ok" /\ b.changes = "ok" /\ b.value = "ok" /\ b.statuses

\* C9: handling a status update is one step that answers 200, sends
\* nothing, calls neither the completion nor the catalog service and leaves
\* the greeted set as it was, whatever else the body contains.
C9_StatusUpdateHasNoEffect ==
    [][\A r \in Requests :
          (pc[r] = "handle" /\ IsStatusUpdate(body[r])) =>
              /\ pc'[r] = "done"
              /\ response'[r] = 200
              /\ sends'[r] = <<>>
              /\ aiCalls'[r] = <<>>
              /\ catalogCalls'[r] = 0
              /\ SENT_WELCOME' = SENT_WELCOME
              /\ welcomeCount' = welcomeCount]_vars

C9_Witness ==
    \E r \in Requests :
        /\ IsStatusUpdate(body[r])
        /\ is_valid_whatsapp_message(body[r])
        /\ body[r].wa_id \notin SENT_WELCOME
        /\ pc[r] = "done"
        /\ response[r] = 200
        /\ sends[r] = <<>>

---------------------------------------------------------------------------
(* The verification handshake, under SpecVerify *)

Given(parameter) == parameter \notin {None, ""}

\* C10: verify answers 200 with the challenge exactly when mode and token
\* are given, mode is "subscribe" and the token is the configured secret;
\* 403 when both are given and that fails; 400 when one of them is missing;
\* and nothing else.
C10_VerifyStatus ==
    verification.pc = "done" =>
        LET v == verification
            both == Given(v.mode) /\ Given(v.token)
            match == v.mode = "subscribe" /\ v.token = VERIFY_TOKEN
        IN  /\ v.status \in {200, 403, 400}
            /\ v.status = 200 <=> (both /\ match)
            /\ v.status = 200 => v.payload = v.challenge
            /\ v.status = 403 <=> (both /\ ~match)
            /\ v.status = 400 <=> ~both

C10_Witness ==
    /\ verification.pc = "done"
    /\ verification.status = 200
    /\ verification.payload = "1158201444"

---------------------------------------------------------------------------
(* The response of handle_message, under SpecSeq *)

\* C11: a body recognized as a valid message event is answered 200,
\* whatever the completion, catalog and send calls did and whichever fields
\* of the message are missing.
C11_ValidEventAnswered200 ==
    \A r \in Requests :
        (is_valid_whatsapp_message(body[r]) /\ pc[r] = "done")
            => response[r] = 200

\* A level of the path object, entry[0], changes[0], value, messages[0] is
\* missing.
LacksPath(b) ==
    \/ ~b.object
    \/ b.entry # "ok"
    \/ b.changes # "ok"
    \/ b.value # "ok"
    \/ b.messages # "ok"

\* C12: a body that is no status update and lacks a level of the expected
\* path is answered 404, and nothing is sent, no external call is made and
\* the greeted set is left alone.
C12_MalformedBodyAnswered404 ==
    [][\A r \in Requests :
          (pc[r] = "handle" /\ ~IsStatusUpdate(body[r]) /\ LacksPath(body[r])) =>
              /\ pc'[r] = "done"
              /\ response'[r] = 404
              /\ sends'[r] = <<>>
              /\ aiCalls'[r] = <<>>
              /\ catalogCalls'[r] = 0
              /\ SENT_WELCOME' = SENT_WELCOME]_vars

---------------------------------------------------------------------------
(* The welcome sequence *)

\* C13: the welcome Image send starts only after the welcome Text send has
\* returned and a delay step has run in between: a request takes up the
\* Image send from the delay, never straight from the Text send.
C13_DelayBetweenWelcomeSends ==
    [][\A r \in Requests :
          (pc'[r] = "welcome_image" /\ pc[r] # "welcome_image") =>
              /\ "welcome_text" \in Sites(r)
              /\ pc[r] = "welcome_delay"]_vars

---------------------------------------------------------------------------
(* Send failures *)

\* The send the routing of a message ends in, "<none>" when it sends nothing.
ExpectedSite(message) ==
    IF message.type = "interactive" /\ message.interactive = "button_reply"
       /\ message.button \in {"catalog", "info"}
    THEN message.button
    ELSE IF message.type = "text" /\ message.has_text
    THEN (IF message.text \in CommandBodies THEN "catalog" ELSE "reply")
    ELSE "<none>"

\* C14: no send is made twice, and a failed send ends nothing: a request
\* that started the welcome attempts both welcome sends, and an answered
\* request attempts its routed send, whatever the earlier sends returned.
C14_FailedSendDoesNotAbort ==
    \A r \in Requests :
        /\ \A site \in Sites(r) : Cardinality(SendsAt(r, site)) = 1
        /\ (local[r].welcomed /\ pc[r] \in PastWelcome \cup {"done"})
              => WelcomeSites \subseteq Sites(r)
        /\ (Answered(r) /\ local[r].wa_id # None
            /\ ExpectedSite(body[r].message) # "<none>")
              => ExpectedSite(body[r].message) \in Sites(r)

C14_Witness ==
    \E r \in Requests :
        /\ Answered(r)
        /\ Len(sends[r]) = 3
        /\ sends[r][1].site = "welcome_text" /\ ~sends[r][1].ok
        /\ sends[r][2].site = "welcome_image" /\ ~sends[r][2].ok
        /\ sends[r][3].site = "catalog" /\ ~sends[r][3].ok

---------------------------------------------------------------------------
(* The completion call *)

LastPrompt(r) == aiCalls[r][Len(aiCalls[r])]

\* C15: generate_response hands its caller the completion, or the fixed
\* apology when the call failed, and never an error: the request goes on to
\* send that text as its reply, and no request that made a completion call
\* for its routed action ends with 500.
C15_ApologyOnFailure ==
    \A r \in Requests :
        /\ pc[r] \in {"welcome_text", "catalog_build", "info_send", "reply_send"}
              => /\ aiCalls[r] # <<>>
                 /\ local[r].text = IF local[r].ai_failed THEN APOLOGY
                                    ELSE Completion(LastPrompt(r))
        /\ \A i \in SendsAt(r, "reply") :
              /\ sends[r][i].msg.type = "text"
              /\ sends[r][i].msg.text = local[r].text
              /\ sends[r][i].msg.text = IF local[r].ai_failed THEN APOLOGY
                                        ELSE Completion(LastPrompt(r))
        /\ (pc[r] = "done" /\ response[r] = 500)
              => \A i \in 1..Len(aiCalls[r]) : aiCalls[r][i] = WelcomePrompt

C15_Witness ==
    \E r \in Requests :
        /\ Answered(r)
        /\ local[r].ai_failed
        /\ sends[r] # <<>>
        /\ sends[r][Len(sends[r])].site = "reply"
        /\ sends[r][Len(sends[r])].msg.text = APOLOGY

\* C16: a text message whose body is neither blank nor a catalog command
\* makes one completion call with the body as it was received, and one
\* reply Text carrying that call's result is sent.
C16_RawTextToCompletion ==
    \A r \in Requests :
        (IsTextRequest(r) /\ TextOf(r) \notin CommandBodies \cup BlankBodies
         /\ Answered(r)) =>
            /\ Cardinality(UserPrompts(r)) = 1
            /\ LastPrompt(r) = UserPrompt(TextOf(r))
            /\ Cardinality(SendsAt(r, "reply")) = 1
            /\ sends[r][Len(sends[r])].site = "reply"
            /\ sends[r][Len(sends[r])].msg.text
                  \in {Completion(UserPrompt(TextOf(r))), APOLOGY}

---------------------------------------------------------------------------
(* Interactive messages, under SpecSeq *)

IsInteractiveRequest(r) ==
    /\ is_valid_whatsapp_message(body[r])
    /\ ~body[r].statuses
    /\ body[r].message.type = "interactive"

IsButton(r, id) ==
    /\ body[r].message.interactive = "button_reply"
    /\ body[r].message.button = id

\* C17: an interactive message of a user who is already greeted is answered
\* with exactly one Catalog message for the button "catalog", exactly one
\* Text for the button "info", and with nothing at all (no send, no
\* completion call, no catalog lookup) for any other button id or any
\* interactive type other than a button reply.
C17_InteractiveRouting ==
    \A r \in Requests :
        (IsInteractiveRequest(r) /\ local[r].greeted_on_arrival /\ pc[r] = "done") =>
            /\ response[r] = 200
            /\ IF IsButton(r, "catalog")
               THEN /\ Len(sends[r]) = 1
                    /\ sends[r][1].site = "catalog"
                    /\ sends[r][1].msg.type = "interactive"
                    /\ sends[r][1].msg.items # <<>>
               ELSE IF IsButton(r, "info")
               THEN /\ Len(sends[r]) = 1
                    /\ sends[r][1].site = "info"
                    /\ sends[r][1].msg.type = "text"
                    /\ catalogCalls[r] = 0
               ELSE /\ sends[r] = <<>>
                    /\ aiCalls[r] = <<>>
                    /\ catalogCalls[r] = 0

C17_Witness ==
    \E r \in Requests :
        /\ IsInteractiveRequest(r)
        /\ local[r].greeted_on_arrival
        /\ IsButton(r, "other")
        /\ Answered(r)
        /\ sends[r] = <<>>

---------------------------------------------------------------------------
(* Two users at once, under Spec *)

\* Positions of a request after SENT_WELCOME.add has run or was not needed.
PastMark ==
    {"route", "catalog_generate", "catalog_build", "catalog_send",
     "info_generate", "info_send", "reply_generate", "reply_send", "respond"}

IsMessageEvent(r) ==
    /\ pc[r] # "idle"
    /\ is_valid_whatsapp_message(body[r])
    /\ ~body[r].statuses
    /\ body[r].contacts

\* C18: when the first two requests of a run come from two different users,
\* each of them is welcomed, however their steps interleave: each request
\* sends one welcome Text and one welcome Image, each user is welcomed once,
\* and a user whose request has passed the add is in the greeted set and
\* stays there, so that both are in it when both requests are answered.
C18_TwoNewUsers ==
    \A r1, r2 \in Requests :
        (/\ r1 # r2
         /\ started = 2
         /\ IsMessageEvent(r1) /\ IsMessageEvent(r2)
         /\ body[r1].wa_id # body[r2].wa_id) =>
            /\ welcomeCount[body[r1].wa_id] <= 1
            /\ pc[r1] \notin {"handle", "check_welcome"} => local[r1].welcomed
            /\ pc[r1] \in PastMark \cup {"done"} =>
                  /\ body[r1].wa_id \in SENT_WELCOME
                  /\ welcomeCount[body[r1].wa_id] = 1
                  /\ Cardinality(SendsAt(r1, "welcome_text")) = 1
                  /\ Cardinality(SendsAt(r1, "welcome_image")) = 1
            /\ (Answered(r1) /\ Answered(r2)) =>
                  {body[r1].wa_id, body[r2].wa_id} \subseteq SENT_WELCOME

C18_Witness ==
    \E r1, r2 \in Requests :
        /\ body[r1].wa_id = "u1" /\ body[r2].wa_id = "u2"
        /\ pc[r1] = "respond" /\ pc[r2] = "respond"
        /\ local[r1].welcomed /\ local[r2].welcomed
        /\ SENT_WELCOME = Users
        /\ welcomeCount = [u \in Users |-> 1]

---------------------------------------------------------------------------
(* The request lifecycle, under Spec *)

C19_AllSendsBeforeResponse ==
    \A r \in Requests :
        /\ response[r] # 0 <=> pc[r] = "done"
        /\ (Answered(r) /\ IsMessageEvent(r)) =>
              /\ local[r].welcomed => WelcomeSites \subseteq Sites(r)
              /\ ExpectedSite(body[r].message) # "<none>" =>
                    /\ sends[r] # <<>>
                    /\ sends[r][Len(sends[r])].site = ExpectedSite(body[r].message)

\* C19: a request has its response exactly when it has finished; an
\* answered message event has by then attempted its welcome sends and its
\* routed send; and no send or completion call is added to a request that
\* has its response.
C19_HandledWithinRequest ==
    /\ []C19_AllSendsBeforeResponse
    /\ [][\A r \in Requests :
             (Len(sends'[r]) > Len(sends[r]) \/ Len(aiCalls'[r]) > Len(aiCalls[r]))
                 => (response[r] = 0 /\ response'[r] = 0)]_vars

C19_Witness ==
    \E r \in Requests :
        /\ Answered(r)
        /\ local[r].welcomed
        /\ Len(sends[r]) = 3
        /\ sends[r][3].site = "info"

---------------------------------------------------------------------------
(* When a user becomes greeted, under Spec *)

\* Positions of a request inside the welcome, before SENT_WELCOME.add.
InWelcome ==
    {"welcome_generate", "welcome_text", "welcome_image", "mark_welcomed"}

C20_GreetedAfterWelcome ==
    \A r \in Requests :
        /\ (local[r].welcomed /\ pc[r] \in InWelcome)
              => local[r].greeted_on_arrival = FALSE
        /\ (local[r].welcomed /\ pc[r] \in PastMark \cup {"done"})
              => /\ local[r].wa_id \in SENT_WELCOME
                 /\ Len(sends[r]) >= 2
                 /\ sends[r][1].site = "welcome_text"
                 /\ sends[r][2].site = "welcome_image"
        /\ local[r].greeted_on_arrival => Sites(r) \cap WelcomeSites = {}

\* C20: a user enters the greeted set in the step after the welcome Text
\* and the welcome Image of a request of theirs have both been attempted,
\* and in no other step, so that a request that stops earlier adds nobody;
\* the user is added whether or not those sends succeeded, and a request
\* that arrives for a user in the set sends no welcome.
C20_MarkedAfterBothSends ==
    /\ []C20_GreetedAfterWelcome
    /\ [][\A u \in SENT_WELCOME' \ SENT_WELCOME :
             \E r \in Requests :
                 /\ local[r].wa_id = u
                 /\ pc[r] = "mark_welcomed"
                 /\ Len(sends[r]) = 2
                 /\ sends[r][1].site = "welcome_text"
                 /\ sends[r][2].site = "welcome_image"]_vars

C20_Witness ==
    \E r \in Requests :
        /\ local[r].welcomed
        /\ pc[r] = "route"
        /\ ~sends[r][1].ok
        /\ ~sends[r][2].ok
        /\ local[r].wa_id \in SENT_WELCOME

=============================================================================
